---- MODULE Spec2Model ----
(***************************************************************************)
(* Roster allocation of generate-match-players.py: main() loads the pool   *)
(* registry, the unavailabilities and the games, seeds the rosters from    *)
(* previous_games.yaml and calls Game.setup for every game in order.       *)
(* Game.setup fills the roster pool by pool with the least-played          *)
(* candidates; random.choice is the only nondeterministic step.            *)
(***************************************************************************)
EXTENDS Integers, Sequences, FiniteSets, TLC

\* ------------------------------------------------------------------ bounds
\* Longest list of games load_calendar hands to main.
MaxEvents == 2

\* Number of games of the runs that follow a whole season (SpecSeason).
SeasonEvents == 4

\* ------------------------------------------------------- names and players
\* A name is a sequence of characters, so that endswith("*") is computed.
NameA == <<"a">>
NameB == <<"b", "*">>
NameC == <<"c">>
Names == {NameA, NameB, NameC}

Digits == <<"0", "1", "2", "3", "4", "5", "6", "7", "8", "9">>
\* A name of previous_games.yaml that is in no pool of players.yaml.
Stranger(i) == <<"x", Digits[i]>>
Strangers(k) == {Stranger(i) : i \in 1..k}

Player(name, pool) == [name |-> name, pool |-> pool]

\* Player.__eq__ / __hash__: two Player objects are the same set element
\* exactly when their names are equal.
PlayerEq(p, q) == p.name = q.name

\* A set.add that drops the entries of the previous roster.
SetAddDropsPrevious(S, p) == {q \in S : q.pool # "unknown"} \cup {p}

\* set.add(p): a set keeps the element it has when an equal one is added.
SetAdd(S, p) == IF \E q \in S : PlayerEq(p, q) THEN S ELSE S \cup {p}

\* S - T on sets of Player objects.
SetMinus(S, T) == {p \in S : ~ \E q \in T : PlayerEq(p, q)}

\* set.remove(p)
SetRemove(S, p) == {q \in S : ~ PlayerEq(p, q)}

is_trainer_kid(p) == Len(p.name) > 0 /\ p.name[Len(p.name)] = "*"

only_trainer_kids(S) == {p \in S : is_trainer_kid(p)}

\* ------------------------------------------------------------------- games
KnownYears == {2012, 2013}
Years == KnownYears \cup {2014}

PlayerCountTable == [y \in KnownYears |-> IF y = 2012 THEN 16 ELSE 9]

player_count(g) == PlayerCountTable[g.year]

PoolCountsTable ==
  [y \in KnownYears |->
     IF y = 2012
     THEN << <<"p12-rutin", 6>>, <<"p12-junior", 3>>,
             <<"p13-stark", 3>>, <<"p13-mellan", 5>> >>
     ELSE << <<"p13-stark", 2>>, <<"p13-mellan", 5>>, <<"p13-junior", 2>> >>]

pool_counts(g) == PoolCountsTable[g.year]

PoolNames == {"p12-rutin", "p12-junior", "p13-stark", "p13-mellan", "p13-junior"}

Locations == {"Skondalshallen", "Farstahallen"}

\* re.match("Sk.ndalshallen", location) on the modelled locations.
is_home(g) == g.location = "Skondalshallen"

\* A start_date is a day of the year 2024 and a time of day.
\* isocalendar()[1]: 2024-01-01 is a Monday, so day d lies in week (d-1)/7+1.
IsoWeek(d) == ((d.doy - 1) \div 7) + 1

is_same_weekend(g, other) == IsoWeek(g.start_date) = IsoWeek(other.start_date)

\* strftime("%Y-%m-%d %H:%M"): the day and the minute, without the seconds.
game_key(g) == <<g.start_date.doy, g.start_date.hour, g.start_date.minute>>

\* 2024-10-05 10:00:00, a Saturday.
FirstStart == [doy |-> 279, hour |-> 10, minute |-> 0, second |-> 0]

\* The next game is a day or a week after the one before it.
Gaps == {1, 7}

RECURSIVE StartOf(_, _)
StartOf(i, gaps) ==
  IF i = 1 THEN FirstStart
  ELSE [StartOf(i - 1, gaps) EXCEPT !.doy = @ + gaps[i - 1]]

\* ------------------------------------------------------------------- state
VARIABLES
  pools,            \* main: pool name -> set of Player
  unavailabilities, \* main: player name -> set of game keys
  previous_games,   \* previous_games.yaml: game index -> set of names
  previous_unmatched, \* previous_games.yaml: the keys that are no game's key
  games,            \* main: the list of Game, each with its players (roster)
  player_games,     \* Player.games of the registry players: name -> list of game indices
  pc,               \* position of main / Game.setup
  gi,               \* index of the game being set up
  pool_i,           \* index into pool_counts of the game being set up
  players,          \* Game.setup: candidates left of the pool being filled
  new,              \* Game.setup: players added for the pool being filled
  groups,           \* add_players: groups not yet drained, ascending key
  picked,           \* add_players: players added by the running call
  fills             \* record of the finished fill loops

vars == <<pools, unavailabilities, previous_games, previous_unmatched, games,
          player_games, pc, gi, pool_i, players, new, groups, picked, fills>>

\* ------------------------------------------------- Player's derived counts
Hist(p) == player_games[p.name]

games_count(p) == Len(Hist(p))

home_games_count(p) ==
  Cardinality({i \in 1..Len(Hist(p)) : is_home(games[Hist(p)[i]])})

away_games_count(p) ==
  Cardinality({i \in 1..Len(Hist(p)) : ~ is_home(games[Hist(p)[i]])})

small_games_count(p) ==
  Cardinality({i \in 1..Len(Hist(p)) : player_count(games[Hist(p)[i]]) = 9})

large_games_count(p) ==
  Cardinality({i \in 1..Len(Hist(p)) : player_count(games[Hist(p)[i]]) = 16})

\* ------------------------------------------------------ selection helpers
\* getattr(p, property) for the three properties the selection reads.
getattr(p, property) ==
  CASE property = "games_count" -> games_count(p)
    [] property = "home_games_count" -> home_games_count(p)
    [] property = "away_games_count" -> away_games_count(p)

\* least_games = 1000 before the scan of get_players_with_least_games.
LeastGamesStart == 1000

SetMin(V) == CHOOSE m \in V : \A v \in V : m <= v

\* get_players_with_least_games(players, property): the players whose
\* property is the least one, when that is below the starting value.
get_players_with_least_games(S, property) ==
  IF S = {} THEN {}
  ELSE LET least == SetMin({getattr(p, property) : p \in S})
       IN  IF least < LeastGamesStart
           THEN {p \in S : getattr(p, property) = least}
           ELSE {}

\* A selection that skips the least-games filter.
get_all_players(S) == S

get_least_played_players(S) == get_players_with_least_games(S, "games_count")

get_players_with_least_home_games(S) ==
  get_players_with_least_games(S, "home_games_count")

get_players_with_least_away_games(S) ==
  get_players_with_least_games(S, "away_games_count")

\* A player is nominated as soon as one game of its history is not in the
\* week of the game (the loop adds on `not game.is_same_weekend(g)`).
players_not_playing_same_weekend(S, g) ==
  {p \in S : \E i \in 1..Len(Hist(p)) : ~ is_same_weekend(g, games[Hist(p)[i]])}

\* players - set(self.players), line 145.
Remaining(ps, g) == SetMinus(ps, g.players)

\* The least played without the narrowing of lines 146-147.
CandidatesNotNarrowed(ps, g) == get_least_played_players(Remaining(ps, g))

\* Lines 145-147: the least played, narrowed to the trainer kids while the
\* roster has fewer than two players.
Candidates(ps, g) ==
  LET least == get_least_played_players(Remaining(ps, g))
  IN  IF Cardinality(g.players) < 2 /\ only_trainer_kids(least) # {}
      THEN only_trainer_kids(least)
      ELSE least

\* Lines 151-155.
PriorityCandidates(ps, g) ==
  IF is_home(g)
  THEN get_players_with_least_home_games(Candidates(ps, g))
  ELSE get_players_with_least_away_games(Candidates(ps, g))

\* Lines 157-171: the set handed to add_players.
Nominated(ps, g) ==
  LET candidates == Candidates(ps, g)
      priority_candidates == PriorityCandidates(ps, g)
      short1 == players_not_playing_same_weekend(priority_candidates, g)
      short2 == players_not_playing_same_weekend(candidates, g)
  IN  IF short1 # {} THEN short1
      ELSE IF short2 # {} THEN short2
      ELSE IF priority_candidates # {} THEN priority_candidates
      ELSE candidates

\* Lines 119-124: the key add_players groups by.
GroupKey(p, g) ==
  IF player_count(g) = 9 THEN small_games_count(p) ELSE large_games_count(p)

\* The groups of the nominated with the keys in descending order.
GroupsOfDescending(nominated, g) ==
  LET keys == {GroupKey(p, g) : p \in nominated}
      n == Cardinality(keys)
      sorted == CHOOSE f \in [1..n -> keys] :
                  \A i \in 1..n : \A j \in 1..n : i < j => f[i] > f[j]
  IN  [i \in 1..n |-> {p \in nominated : GroupKey(p, g) = sorted[i]}]

\* Lines 118-126: the groups of the nominated, in ascending order of key.
GroupsOf(nominated, g) ==
  LET keys == {GroupKey(p, g) : p \in nominated}
      n == Cardinality(keys)
      sorted == CHOOSE f \in [1..n -> keys] :
                  \A i \in 1..n : \A j \in 1..n : i < j => f[i] < f[j]
  IN  [i \in 1..n |-> {p \in nominated : GroupKey(p, g) = sorted[i]}]

\* ------------------------------------------------------------------ inputs
\* players.yaml: the members of p13-stark and p13-mellan; the other pools
\* are declared and empty.
Registry(stark, mellan) ==
  [pn \in PoolNames |->
     {Player(n, pn) : n \in IF pn = "p13-stark" THEN stark
                            ELSE IF pn = "p13-mellan" THEN mellan
                            ELSE {}}]

Registries == {Registry(Names, {}), Registry({NameA, NameB}, {NameC})}

\* load_calendar: n games in calendar order.
GameLists(n) ==
  {[i \in 1..n |-> [start_date |-> StartOf(i, gaps), location |-> loc[i],
                    year |-> yr[i], players |-> {}]] :
     gaps \in [1..(n - 1) -> Gaps], loc \in [1..n -> Locations],
     yr \in [1..n -> Years]}

\* players.yaml: nobody is unavailable, or one player is for one game.
UnavailabilityMaps(gs) ==
  {<<>>} \cup {(n :> {game_key(gs[i])}) : n \in {NameA, NameB}, i \in DOMAIN gs}

\* previous_games.yaml: one roster, recorded for the first games of the
\* calendar: a pool member, or names of no pool, one fewer or one more than
\* a small game takes.
PreviousRosters ==
  {{NameA},
   Strangers(PlayerCountTable[2013] - 1), Strangers(PlayerCountTable[2013] + 1)}

PreviousGames(n) ==
  {[i \in 1..n |-> IF i <= k THEN r ELSE {}] :
     r \in PreviousRosters, k \in 0..n}

\* previous_games.yaml: every key is the key of a game, or one key (a game
\* the day before the first one) is not.
PreviousUnmatched ==
  {{}, {<<FirstStart.doy - 1, FirstStart.hour, FirstStart.minute, "Farstahallen">>}}

Init ==
  /\ \E n \in 1..MaxEvents :
       /\ games \in GameLists(n)
       /\ previous_games \in PreviousGames(n)
  /\ previous_unmatched \in PreviousUnmatched
  /\ pools \in Registries
  /\ unavailabilities \in UnavailabilityMaps(games)
  /\ player_games = [n \in Names |-> <<>>]
  /\ pc = "load_previous_games"
  /\ gi = 1
  /\ pool_i = 1
  /\ players = {}
  /\ new = {}
  /\ groups = <<>>
  /\ picked = 0
  /\ fills = {}

\* A season of SeasonEvents games without previous rosters, all played at
\* one location: only the last game may have a year without tables.
SeasonGameLists(n) ==
  {gs \in GameLists(n) :
     /\ \A i \in 1..(n - 1) : gs[i].year \in KnownYears
     /\ \A i \in 1..n : gs[i].location = gs[1].location}

InitSeason ==
  /\ games \in SeasonGameLists(SeasonEvents)
  /\ previous_games = [i \in 1..SeasonEvents |-> {}]
  /\ previous_unmatched = {}
  /\ pools = Registry(Names, {})
  /\ unavailabilities \in UnavailabilityMaps(games)
  /\ player_games = [n \in Names |-> <<>>]
  /\ pc = "load_previous_games"
  /\ gi = 1
  /\ pool_i = 1
  /\ players = {}
  /\ new = {}
  /\ groups = <<>>
  /\ picked = 0
  /\ fills = {}

\* ----------------------------------------------------------------- actions
Inputs == <<pools, unavailabilities, previous_games, previous_unmatched>>

\* unavailabilities.get(name, [])
Unavailable(name) ==
  IF name \in DOMAIN unavailabilities THEN unavailabilities[name] ELSE {}

\* A pool read without the unavailability filter.
AvailableUnfiltered(pool_name, g) == pools[pool_name]

\* Lines 107-112: the pool's players that are not unavailable for the game.
Available(pool_name, g) ==
  {p \in pools[pool_name] : game_key(g) \notin Unavailable(p.name)}

\* players.remove on the set of the registry itself.
PoolsAliased(ps, pool_name, removed) ==
  [ps EXCEPT ![pool_name] = SetMinus(@, removed)]

\* Line 107: players = set(pools[pool_name]) is a copy, so the removals of
\* lines 111 and 137 leave the pools as they are.
PoolsAfterRemove(ps, pool_name, removed) == ps

\* Lines 142-144: the condition of the fill loop.
LoopCond(g, count) ==
  /\ Cardinality(new) # count
  /\ players # {}
  /\ Cardinality(g.players) # player_count(g)

\* A drain that goes on until the group or the roster is full.
DrainCondNoQuota(g, count, group) ==
  /\ Cardinality(g.players) # player_count(g)
  /\ group # {}

\* Lines 129-133: the condition of the drain of one group.
DrainCond(g, count, group) ==
  /\ Cardinality(new) # count
  /\ Cardinality(g.players) # player_count(g)
  /\ group # {}

\* A drain that leaves the chosen player in the group.
GroupKeep(group, p) == group

\* Line 135: group.remove(p)
GroupRemove(group, p) == SetRemove(group, p)

\* A pick that leaves the history of the player as it is.
GamesKeep(h, i) == h

\* Line 139: p.games.append(self)
GamesAppend(h, i) == Append(h, i)

\* Lines 264-272: the recorded players join the rosters as
\* Player(name, "unknown"); a key left over is printed and the run exits.
LoadPreviousGames ==
  /\ pc = "load_previous_games"
  /\ games' = [i \in DOMAIN games |->
                 [games[i] EXCEPT
                    !.players = {Player(n, "unknown") : n \in previous_games[i]}]]
  /\ pc' = IF previous_unmatched # {} THEN "sys.exit" ELSE "main"
  /\ UNCHANGED <<Inputs, player_games, gi, pool_i, players, new, groups, picked,
                 fills>>

\* Lines 340-342, 105-106: game.setup starts on a game whose year has tables.
SetupGame ==
  /\ pc = "main"
  /\ gi <= Len(games)
  /\ games[gi].year \in KnownYears
  /\ pool_i' = 1
  /\ pc' = "setup"
  /\ UNCHANGED <<Inputs, games, player_games, gi, players, new, groups, picked,
                 fills>>

\* Lines 95-98: the lookup of the year raises KeyError and main ends.
UnknownFormat ==
  /\ pc = "main"
  /\ gi <= Len(games)
  /\ games[gi].year \notin KnownYears
  /\ pc' = "KeyError"
  /\ UNCHANGED <<Inputs, games, player_games, gi, pool_i, players, new, groups,
                 picked, fills>>

\* Line 340: no game is left.
Finish ==
  /\ pc = "main"
  /\ gi > Len(games)
  /\ pc' = "done"
  /\ UNCHANGED <<Inputs, games, player_games, gi, pool_i, players, new, groups,
                 picked, fills>>

\* Lines 106-114: the next pool of the game: its available players, new = set().
NextPool ==
  /\ pc = "setup"
  /\ pool_i <= Len(pool_counts(games[gi]))
  /\ LET pool_name == pool_counts(games[gi])[pool_i][1]
     IN  /\ players' = Available(pool_name, games[gi])
         /\ pools' = PoolsAfterRemove(pools, pool_name,
                        pools[pool_name] \ Available(pool_name, games[gi]))
  /\ new' = {}
  /\ pc' = "while"
  /\ UNCHANGED <<unavailabilities, previous_games, previous_unmatched, games,
                 player_games, gi, pool_i, groups, picked, fills>>

\* Line 106: the pools of the game are done; main takes the next game.
EndSetup ==
  /\ pc = "setup"
  /\ pool_i > Len(pool_counts(games[gi]))
  /\ gi' = gi + 1
  /\ pc' = "main"
  /\ UNCHANGED <<Inputs, games, player_games, pool_i, players, new, groups,
                 picked, fills>>

\* Lines 142-144: the loop condition is false; the fill of the pool ends.
LoopExit ==
  /\ pc = "while"
  /\ ~ LoopCond(games[gi], pool_counts(games[gi])[pool_i][2])
  /\ fills' = fills \cup
       {[game |-> gi, pool |-> pool_counts(games[gi])[pool_i][1],
         count |-> pool_counts(games[gi])[pool_i][2],
         new |-> new, players |-> players,
         size |-> Cardinality(games[gi].players)]}
  /\ pool_i' = pool_i + 1
  /\ pc' = "setup"
  /\ UNCHANGED <<Inputs, games, player_games, gi, players, new, groups, picked>>

\* Lines 145-171: one pass of the loop nominates and calls add_players.
Cascade ==
  /\ pc = "while"
  /\ LoopCond(games[gi], pool_counts(games[gi])[pool_i][2])
  /\ groups' = GroupsOf(Nominated(players, games[gi]), games[gi])
  /\ picked' = 0
  /\ pc' = "add_players"
  /\ UNCHANGED <<Inputs, games, player_games, gi, pool_i, players, new, fills>>

\* Lines 129-139: random.choice takes one player of the group in turn.
Pick ==
  /\ pc = "add_players"
  /\ groups # <<>>
  /\ DrainCond(games[gi], pool_counts(games[gi])[pool_i][2], Head(groups))
  /\ \E p \in Head(groups) :
       /\ groups' = [groups EXCEPT ![1] = GroupRemove(@, p)]
       /\ games' = [games EXCEPT ![gi].players = SetAdd(@, p)]
       /\ new' = SetAdd(new, p)
       /\ players' = SetRemove(players, p)
       /\ pools' = PoolsAfterRemove(pools, pool_counts(games[gi])[pool_i][1], {p})
       /\ player_games' = [player_games EXCEPT ![p.name] = GamesAppend(@, gi)]
  /\ picked' = picked + 1
  /\ UNCHANGED <<unavailabilities, previous_games, previous_unmatched, pc, gi,
                 pool_i, fills>>

\* Lines 127-133: the drain of the group ends; the next key follows.
NextGroup ==
  /\ pc = "add_players"
  /\ groups # <<>>
  /\ ~ DrainCond(games[gi], pool_counts(games[gi])[pool_i][2], Head(groups))
  /\ groups' = Tail(groups)
  /\ UNCHANGED <<Inputs, games, player_games, pc, gi, pool_i, players, new,
                 picked, fills>>

\* Line 127: no key is left; add_players returns into the loop.
Return ==
  /\ pc = "add_players"
  /\ groups = <<>>
  /\ pc' = "while"
  /\ UNCHANGED <<Inputs, games, player_games, gi, pool_i, players, new, groups,
                 picked, fills>>

Next ==
  \/ LoadPreviousGames
  \/ SetupGame
  \/ UnknownFormat
  \/ Finish
  \/ NextPool
  \/ EndSetup
  \/ LoopExit
  \/ Cascade
  \/ Pick
  \/ NextGroup
  \/ Return

Spec == Init /\ [][Next]_vars

SpecSeason == InitSeason /\ [][Next]_vars

\* ------------------------------------------------------ claims' vocabulary
Abs(x) == IF x < 0 THEN -x ELSE x

IsPrefix(s, t) == Len(s) <= Len(t) /\ \A i \in 1..Len(s) : s[i] = t[i]

RosterNames(i) == {p.name : p \in games[i].players}

\* The roster load_previous_games seeds game i with.
Locked(i) == {Player(n, "unknown") : n \in previous_games[i]}

\* Game i has been set up: main has moved past it.
Allocated(i) == pc # "load_previous_games" /\ i \in DOMAIN games /\ i < gi

\* The name is a member of the pool in the registry.
InPool(name, pn) == \E q \in pools[pn] : q.name = name

PoolMembersIn(i, pn) == {n \in RosterNames(i) : InPool(n, pn)}

LockedIn(i, pn) == {n \in previous_games[i] : InPool(n, pn)}

\* The fill ran out of candidates before its quota was met.
Underfilled(f) == Cardinality(f.new) # f.count /\ f.players = {}

FillsOf(i) == {f \in fills : f.game = i}

NeverUnavailable(name) == Unavailable(name) = {}

NeverLocked(name) == \A i \in DOMAIN games : name \notin previous_games[i]

\* ------------------------------------------------------------------ claims
\* C1: every pass of the fill loop adds at least one player (so the loop
\* ends): whenever add_players returns, it has added a player.
C1_EveryPassAdds == (pc = "add_players" /\ groups = <<>>) => picked >= 1

\* C2: once a game is set up its roster has at most player_count players,
\* and exactly player_count unless one of its fills ran out of candidates.
C2_RosterWithinCapacity ==
  \A i \in DOMAIN games :
    Allocated(i) =>
      /\ Cardinality(games[i].players) <= player_count(games[i])
      /\ \/ Cardinality(games[i].players) = player_count(games[i])
         \/ \E f \in FillsOf(i) : Underfilled(f)

\* C3: once a game is set up, the roster holds exactly the quota of members
\* of every pool of its table, unless that pool's fill ran out of candidates.
C3_PoolCountEqualsQuota ==
  \A f \in fills :
    Allocated(f.game) =>
      \/ Cardinality(PoolMembersIn(f.game, f.pool)) = f.count
      \/ Underfilled(f)

\* C4: at the end of the run, two members of one pool that are never
\* unavailable have games counts that differ by at most 1.
C4_FairnessBound ==
  pc = "done" =>
    \A pn \in PoolNames : \A p \in pools[pn] : \A q \in pools[pn] :
      (NeverUnavailable(p.name) /\ NeverUnavailable(q.name))
        => Abs(games_count(p) - games_count(q)) <= 1

\* C4 as amended: the bound holds for two members of one pool that are never
\* unavailable and are in no previous roster.
C4_FairnessBoundUnlocked ==
  pc = "done" =>
    \A pn \in PoolNames : \A p \in pools[pn] : \A q \in pools[pn] :
      (/\ NeverUnavailable(p.name) /\ NeverUnavailable(q.name)
       /\ NeverLocked(p.name) /\ NeverLocked(q.name))
        => Abs(games_count(p) - games_count(q)) <= 1

\* The run is over, after two games, and two such members differ by one game.
C4_Witness ==
  /\ pc = "done"
  /\ Len(games) >= 2
  /\ \E pn \in PoolNames : \E p \in pools[pn] : \E q \in pools[pn] :
       /\ NeverUnavailable(p.name) /\ NeverUnavailable(q.name)
       /\ NeverLocked(p.name) /\ NeverLocked(q.name)
       /\ games_count(p) = 2
       /\ games_count(q) = 1

\* C5: a previous roster entry counts toward the quota of its pool: a fill
\* that had candidates enough and did not meet the capacity of the game adds
\* the quota less the previous entries of the pool.
C5_LockedCountsTowardQuota ==
  \A f \in fills :
    (/\ Cardinality(SetMinus(f.new \cup f.players, Locked(f.game)))
          >= f.count - Cardinality(LockedIn(f.game, f.pool))
     /\ f.size # player_count(games[f.game]))
      => Cardinality(f.new) + Cardinality(LockedIn(f.game, f.pool)) = f.count

\* C6: when every member of the pool is unavailable or already in the
\* roster before the quota is met, the fill loop ends.
C6_ExhaustedFillEnds ==
  (/\ pc = "while"
   /\ Cardinality(new) # pool_counts(games[gi])[pool_i][2]
   /\ \A p \in pools[pool_counts(games[gi])[pool_i][1]] :
        \/ game_key(games[gi]) \in Unavailable(p.name)
        \/ p.name \in RosterNames(gi))
    => ~ LoopCond(games[gi], pool_counts(games[gi])[pool_i][2])

\* C7: a player that is unavailable for a game is not in the roster of the
\* game once the game is set up.
C7_UnavailableNeverRostered ==
  \A i \in DOMAIN games :
    Allocated(i) =>
      \A p \in games[i].players : game_key(games[i]) \notin Unavailable(p.name)

\* C7 as amended: a player that is unavailable for a game is never added to
\* its roster by Game.setup; it is in the roster only as a previous entry.
C7_UnavailableNeverSelected ==
  \A i \in DOMAIN games :
    \A p \in games[i].players :
      game_key(games[i]) \in Unavailable(p.name) => p \in Locked(i)

\* A game is set up without the unavailable player, who alone has the
\* fewest games of the pool, and with the other members of the pool.
C7_Witness ==
  \E i \in DOMAIN games : \E pn \in PoolNames : \E p \in pools[pn] :
    /\ Allocated(i)
    /\ game_key(games[i]) \in Unavailable(p.name)
    /\ p.name \notin RosterNames(i)
    /\ \E q \in pools[pn] : q.name # p.name
    /\ \A q \in pools[pn] :
         q.name # p.name =>
           /\ q.name \in RosterNames(i)
           /\ games_count(p) < games_count(q) - 1

\* C8: no two entries of a roster have the same name, no game is twice in a
\* player's history, and a history only grows by appending.
C8_NoDuplicates ==
  /\ [](/\ \A i \in DOMAIN games :
             \A p \in games[i].players : \A q \in games[i].players :
               p.name = q.name => p = q
        /\ \A n \in Names :
             \A j \in 1..Len(player_games[n]) : \A k \in 1..Len(player_games[n]) :
               player_games[n][j] = player_games[n][k] => j = k)
  /\ [][\A n \in Names : IsPrefix(player_games[n], player_games'[n])]_vars

\* A player has two games in its history and is in both rosters.
C8_Witness ==
  \E n \in Names :
    /\ Len(player_games[n]) = 2
    /\ n \in RosterNames(1)
    /\ n \in RosterNames(2)

\* C9: the entries of the previous roster stay in the roster, and a roster
\* only gains players.
C9_LockedStay ==
  /\ [](pc # "load_previous_games" =>
          \A i \in DOMAIN games : Locked(i) \subseteq games[i].players)
  /\ [][\A i \in DOMAIN games : games[i].players \subseteq games'[i].players]_vars

\* A game with a previous entry is set up and has gained a player.
C9_Witness ==
  \E i \in DOMAIN games :
    /\ Allocated(i)
    /\ Locked(i) # {}
    /\ Locked(i) \subseteq games[i].players
    /\ games[i].players # Locked(i)

\* C10: when a game has a year without tables the run fails before any
\* roster or history has changed.
C10_FailsBeforeMutation ==
  pc = "KeyError" =>
    /\ \A i \in DOMAIN games : games[i].players = Locked(i)
    /\ \A n \in Names : player_games[n] = <<>>

\* C11: a name of a previous roster that is the name of no pool member is
\* reported: once the previous rosters are loaded the run has exited.
C11_UnknownNameReported ==
  (/\ pc # "load_previous_games"
   /\ \E i \in DOMAIN games : \E n \in previous_games[i] :
        \A pn \in PoolNames : ~ InPool(n, pn))
    => pc = "sys.exit"

\* C12: players_not_playing_same_weekend(S, E) is the set of the members of
\* S with no history entry in the week of E (an empty history is in it), for
\* the candidates and the game of every pass of the fill loop.
C12_NotSameWeekendIsEveryEntry ==
  (pc = "while" /\ LoopCond(games[gi], pool_counts(games[gi])[pool_i][2])) =>
    players_not_playing_same_weekend(Candidates(players, games[gi]), games[gi])
      = {p \in Candidates(players, games[gi]) :
           \A k \in 1..Len(Hist(p)) :
             ~ is_same_weekend(games[gi], games[Hist(p)[k]])}

\* C13: every player add_players adds has, when it is added, the least
\* games_count of the pool's candidates that are left (available and not in
\* the roster), at every pick of a drain.
C13_PickIsLeastPlayed ==
  [][(pc = "add_players" /\ players' # players) =>
       \A p \in players \ players' :
         \A q \in Remaining(players, games[gi]) :
           games_count(p) <= games_count(q)]_vars

\* The second pick of one drain has been made while a candidate that had
\* played more than the picked ones is left.
C13_Witness ==
  /\ pc = "add_players"
  /\ picked >= 2
  /\ \E q \in Remaining(players, games[gi]) :
       \A p \in new : games_count(q) >= games_count(p)

\* The players of the groups add_players has still to drain.
Grouped(gs) == UNION {gs[i] : i \in DOMAIN gs}

\* C14: every pass of the fill loop hands add_players the first non-empty of
\* notSameWeekend(priority), notSameWeekend(leastPlayed), priority and
\* leastPlayed, priority being the least played with the fewest home games
\* (home game) or away games (away game), notSameWeekend(S) the members of S
\* with no history entry in the week of the game, and every pick is one of
\* them.
C14_CascadeOrder ==
  [][/\ (pc = "while" /\ pc' = "add_players") =>
          LET g == games[gi]
              leastPlayed == Candidates(players, g)
              metric(p) == IF is_home(g) THEN home_games_count(p)
                           ELSE away_games_count(p)
              priority == {p \in leastPlayed :
                             \A q \in leastPlayed : metric(p) <= metric(q)}
              notSameWeekend(S) ==
                {p \in S : \A k \in 1..Len(Hist(p)) :
                            ~ is_same_weekend(g, games[Hist(p)[k]])}
              first == notSameWeekend(priority)
              second == notSameWeekend(leastPlayed)
          IN  Grouped(groups') =
                IF first # {} THEN first
                ELSE IF second # {} THEN second
                ELSE IF priority # {} THEN priority
                ELSE leastPlayed
     /\ (pc = "add_players" /\ players' # players) =>
          players \ players' \subseteq Grouped(groups)]_vars

\* C15: a pass that evaluates the cascade while the roster has fewer than two
\* players and a least played candidate is a trainer kid adds trainer kids
\* only; a pass that evaluates it with two or more players in the roster
\* takes the cascade over all the least played.
C15_TrainerKidsFirst ==
  [][/\ (pc = "while" /\ pc' = "add_players") =>
          LET g == games[gi]
              least == get_least_played_players(Remaining(players, g))
              priority == IF is_home(g)
                          THEN get_players_with_least_home_games(least)
                          ELSE get_players_with_least_away_games(least)
              short1 == players_not_playing_same_weekend(priority, g)
              short2 == players_not_playing_same_weekend(least, g)
          IN  /\ (Cardinality(g.players) < 2 /\ \E p \in least : is_trainer_kid(p))
                   => \A p \in Grouped(groups') : is_trainer_kid(p)
              /\ Cardinality(g.players) >= 2
                   => Grouped(groups') =
                        IF short1 # {} THEN short1
                        ELSE IF short2 # {} THEN short2
                        ELSE IF priority # {} THEN priority
                        ELSE least
     /\ (pc = "add_players" /\ players' # players) =>
          \E grp \in {groups[k] : k \in DOMAIN groups} :
            players \ players' \subseteq grp]_vars

\* The first pick of a roster was a trainer kid while a candidate that is
\* not one, and had played no more than the kid, is left.
C15_Witness ==
  /\ pc = "add_players"
  /\ picked = 1
  /\ Cardinality(games[gi].players) = 1
  /\ \E p \in games[gi].players :
       /\ is_trainer_kid(p)
       /\ \E q \in Remaining(players, games[gi]) :
            ~ is_trainer_kid(q) /\ games_count(q) < games_count(p)

\* C16: within one drain no player is picked while a player of the same
\* nominated set with fewer games of the format of the game (small games for
\* a game of 9, large games otherwise) is still unpicked.
C16_AscendingFormatCount ==
  [][(pc = "add_players" /\ players' # players) =>
       \A p \in players \ players' :
         \A q \in Grouped(groups) :
           GroupKey(p, games[gi]) <= GroupKey(q, games[gi])]_vars

\* A pick has been made while a group of a larger key waits.
C16_Witness ==
  /\ pc = "add_players"
  /\ picked >= 1
  /\ Len(groups) >= 2
  /\ groups[2] # {}
  /\ \E p \in new : \A q \in groups[2] :
       GroupKey(p, games[gi]) <= GroupKey(q, games[gi])

\* C17: no step of a run changes the member set of a pool or the set of
\* game keys a player is unavailable for.
C17_InputsNotMutated ==
  [][pools' = pools /\ unavailabilities' = unavailabilities]_vars

\* A run has ended in which a player was removed from the copy of a pool as
\* unavailable and a player was picked from one.
C17_Witness ==
  /\ pc = "done"
  /\ \E i \in DOMAIN games : \E n \in Names :
       game_key(games[i]) \in Unavailable(n)
  /\ \E n \in Names : player_games[n] # <<>>

\* C18: every game of a player's history has the player in its roster, and
\* every roster member that add_players added (an entry of the previous
\* roster is not one) has the game in its history exactly once.
C18_RosterHistoryConsistent ==
  /\ \A n \in Names : \A k \in 1..Len(player_games[n]) :
       n \in RosterNames(player_games[n][k])
  /\ \A i \in DOMAIN games : \A p \in games[i].players :
       p.pool # "unknown" =>
         Cardinality({k \in 1..Len(Hist(p)) : Hist(p)[k] = i}) = 1

\* A run has ended with a player added to two games, one of which also has
\* entries of a previous roster.
C18_Witness ==
  /\ pc = "done"
  /\ \E n \in Names :
       /\ Len(player_games[n]) >= 2
       /\ \E k \in 1..Len(player_games[n]) :
            Locked(player_games[n][k]) # {}

\* C19: at every step of the fill of a pool, and when the fill has ended,
\* the players newly added for the pool are no more than the pool's count.
C19_NewWithinQuota ==
  /\ pc \in {"while", "add_players"} =>
       Cardinality(new) <= pool_counts(games[gi])[pool_i][2]
  /\ \A f \in fills : Cardinality(f.new) <= f.count

\* The count of the pool is reached while nominated players are still in
\* the group being drained.
C19_Witness ==
  /\ pc = "add_players"
  /\ Cardinality(new) = pool_counts(games[gi])[pool_i][2]
  /\ groups # <<>>
  /\ Head(groups) # {}

====
